---- MODULE Spec2Model ----
(***************************************************************************)
(* Payment reconciliation of the laboratory backend: the Payment model     *)
(* (backend/models/Payment.js), the payment routes (routes/payment.js:      *)
(* initialize, verify, Paystack webhook), the Booking documents they        *)
(* update and the booking routes (routes/booking.js) that write the same    *)
(* documents.  Every HTTP request is a handler that runs between its        *)
(* awaits; one action of the model is the code of a handler from one        *)
(* access to the database (or to the provider) to the next.  A document     *)
(* loaded by a handler is a private copy; save() writes back the paths      *)
(* that were modified on that copy.                                         *)
(* The accounts of the admin routes (routes/admin.js), the createAdmin      *)
(* script and the guards protect and adminAuth (middleware/auth.js) are a   *)
(* second specification, AuthSpec, over the users collection.               *)
(***************************************************************************)
EXTENDS Integers, FiniteSets, Sequences, TLC

\* ------------------------------------------------------------------ bounds
NumHandlers == 2     \* requests in flight at the same time
MaxClock    == 2     \* the clock (new Date()) of the payment routes: 1..MaxClock
MaxRequests == 2     \* requests, refunds and script runs taken in a run
MaxGenerated == 2    \* references the pre-save hook may generate
MaxAmount   == 2     \* the amount of the payments (major units)
MaxAccounts == 1     \* accounts the createAdmin script may create
MaxHours    == 17    \* the clock of the account routes, in hours

\* ------------------------------------------------------- program constants
EightHours == 8      \* expiresIn '8h'
ThirtyDays == 720    \* expiresIn '30d', in hours

\* ------------------------------------------------------------- value sets
None == "none"       \* undefined / null
NoDoc == [absent |-> TRUE]
NoResponse == [status |-> "none"]   \* providerResponse's default, {}
NoReq == [kind |-> "none", event |-> "none", booking |-> "none", amount |-> 0]

Handlers  == 1..NumHandlers
Bookings  == {"b1", "b2"}
NewBookingId == "b3"
UnknownBooking == "b0"
SeedRefs  == {"PAY_1", "PAY_2"}
GenRefs   == {"PAY_G" \o ToString(i) : i \in 1..MaxGenerated}
UnknownRef == "PAY_X"

\* The id the provider assigns to the transaction of a reference.
ProviderTxId(ref) == "T_" \o ref

Statuses == {"pending", "processing", "completed", "failed", "cancelled", "refunded"}
Methods  == {"card", "cash"}
BookingStatuses == {"pending", "confirmed", "completed", "cancelled"}

Fields == {"booking", "paymentMethod", "amount", "status", "transactionId",
           "providerResponse", "paidAt", "verified", "verifiedAt",
           "failureReason", "retryCount", "refundAmount", "refundedAt", "reference"}

VARIABLES
    payments,     \* the payments collection: reference -> stored document
    bookings,     \* the bookings collection: booking id -> stored document
    now,          \* the clock read by new Date() and by jwt
    strictQuery,  \* whether the ODM strips filter paths that are not in the schema
    pc,           \* per handler: where the request is
    req,          \* per handler: the request being handled
    loaded,       \* per handler: the document as findOne returned it
    doc,          \* per handler: the handler's copy of the payment, as modified
    bookingDoc,   \* per handler: the booking document the handler holds
    last,         \* the request answered last: what it was, what it found, the answer
    served,       \* the number of requests taken so far
    users,        \* the users collection: _id -> stored document
    tokens,       \* the tokens that login has issued
    jwtSecret,    \* process.env.JWT_SECRET (none: the environment sets no secret)
    authLast      \* the request to an account route answered last

paymentVars == <<payments, bookings, strictQuery, doc, bookingDoc, last>>
accountVars == <<users, tokens, jwtSecret, authLast>>
vars == <<payments, bookings, now, strictQuery, pc, req, loaded, doc, bookingDoc,
          last, served, users, tokens, jwtSecret, authLast>>
\* ------------------------------------------------ Payment schema (Payment.js)

\* new Payment({...}): the schema's defaults for what the caller leaves out.
NewPayment(booking, amount, method, reference) ==
    [booking |-> booking, paymentMethod |-> method, amount |-> amount,
     status |-> "pending", transactionId |-> None, providerResponse |-> NoResponse,
     paidAt |-> 0, verified |-> FALSE, verifiedAt |-> 0,
     failureReason |-> "", retryCount |-> 0,
     refundAmount |-> 0, refundedAt |-> 0, reference |-> reference]

\* The schema's validation, which save() runs first: the required paths are
\* set, status is one of the enum's values, amount is not negative.
Validate(d) ==
    /\ d.reference # None
    /\ d.booking # None
    /\ d.status \in Statuses
    /\ d.amount >= 0

\* paymentSchema.pre('save'): the hook's assignments, at time t, with g the
\* reference it generates for a document that has none.
PreSave(d, t, g) ==
    LET d1 == IF d.reference = None THEN [d EXCEPT !.reference = g] ELSE d
        d2 == IF d1.status = "completed" /\ d1.paidAt = 0
              THEN [d1 EXCEPT !.paidAt = t, !.verified = TRUE, !.verifiedAt = t]
              ELSE d1
        d3 == IF d2.status = "refunded" /\ d2.refundedAt = 0
              THEN [d2 EXCEPT !.refundedAt = t]
              ELSE d2
    IN d3

\* markAsCompleted(transactionId, providerResponse), before its save().
MarkAsCompleted(d, transactionId, providerResponse, t) ==
    [d EXCEPT !.status = "completed",
              !.transactionId = transactionId,
              !.providerResponse = providerResponse,
              !.paidAt = t,
              !.verified = TRUE,
              !.verifiedAt = t]

\* markAsFailed without the increment of retryCount.
MarkAsFailedNoRetry(d, reason, providerResponse) ==
    [d EXCEPT !.status = "failed",
              !.failureReason = reason,
              !.providerResponse = providerResponse]

\* markAsFailed(reason, providerResponse), before its save().
MarkAsFailed(d, reason, providerResponse) ==
    [d EXCEPT !.status = "failed",
              !.failureReason = reason,
              !.providerResponse = providerResponse,
              !.retryCount = d.retryCount + 1]

\* processRefund without the test of the amount.
RefundThrowsStatusOnly(d, amount) == d.status # "completed"

\* processRefund(amount, reason): whether it throws, and its assignments.
RefundThrows(d, amount) == d.status # "completed" \/ amount > d.amount

ProcessRefund(d, amount, t) ==
    [d EXCEPT !.status = "refunded", !.refundAmount = amount, !.refundedAt = t]

\* ------------------------------------------------------- the ODM's save()

\* The paths save() sends: those whose value on the copy differs from the
\* value the document was loaded with.
ModifiedPaths(old, new) == {f \in Fields : new[f] # old[f]}

\* updateOne({_id}, {$set: modified paths}) on the stored document.
UpdateOne(stored, old, new) ==
    [f \in Fields |-> IF f \in ModifiedPaths(old, new) THEN new[f] ELSE stored[f]]

\* The unique sparse index on transactionId: another stored payment holds it.
DuplicateKey(ref, d) ==
    /\ d.transactionId # None
    /\ \E r \in DOMAIN payments : r # ref /\ payments[r].transactionId = d.transactionId

\* --------------------------------------- webhook signature (payment.js 120-131)

\* process.env.PAYSTACK_SECRET_KEY: the environment sets no key.
EnvSecretKey == None

\* process.env.PAYSTACK_SECRET_KEY || 'sk_test_your_secret_key'
PAYSTACK_SECRET_KEY ==
    IF EnvSecretKey # None THEN EnvSecretKey ELSE "sk_test_your_secret_key"

\* The body express.raw() hands to the route: a Buffer of the bytes received.
RawBody(event) == [bytes |-> event]

\* JSON.stringify of a Buffer: Buffer.toJSON(), not the bytes.
JsonStringify(buffer) == [type |-> "Buffer", data |-> buffer.bytes]

\* crypto.createHmac('sha512', key).update(message).digest('hex')
Hmac(key, message) == [key |-> key, msg |-> message]

\* The header of a request that carries none, and an empty header.
NoSignature == [key |-> None]
EmptySignature == [key |-> ""]

\* !signature: the header is undefined or the empty string.
Falsy(signature) == signature \in {NoSignature, EmptySignature}

\* The signature the provider sends: the HMAC of the bytes of the body.
ProviderSignature(body) == Hmac(PAYSTACK_SECRET_KEY, body)

\* The verifier without the comparison of the hash it computes.
verifyPaystackSignatureUnchecked(payload, signature) == ~Falsy(signature)

verifyPaystackSignature(payload, signature) ==
    Hmac(PAYSTACK_SECRET_KEY, JsonStringify(payload)) = signature

\* JSON.parse(req.body): the Buffer is read as its text.
JsonParse(buffer) == buffer.bytes

\* ------------------------------- tokens and guards (middleware/auth.js, admin.js)

Emails == {"goldbondadmin", "admin1", "patient1"}
Passwords == {None, "right", "wrong"}

\* The _id of the accounts stored at the start and of those createAdmin makes.
SeedUserIds == {"admin1", "patient1", "g0"}
NewUserId(n) == "g" \o ToString(n)
NewUserIds == {NewUserId(n) : n \in 1..MaxAccounts}

\* A stored user as the document a query returns: with its _id.
UserDocument(id) ==
    [id |-> id, email |-> users[id].email, role |-> users[id].role,
     status |-> users[id].status]

\* User.findById(id): null for a user that is not stored.
FindUserById(id) ==
    IF id \in DOMAIN users /\ users[id] # NoDoc THEN UserDocument(id) ELSE NoDoc

\* The stored users with an email (the unique index allows one).
IdsOfEmail(email) ==
    {id \in DOMAIN users : users[id] # NoDoc /\ users[id].email = email}

\* User.findOne({email})
FindUserByEmail(email) ==
    IF IdsOfEmail(email) = {} THEN NoDoc
    ELSE UserDocument(CHOOSE id \in IdsOfEmail(email) : TRUE)

\* generateToken signs with process.env.JWT_SECRET || 'fallback_secret_key'.
SigningKey == IF jwtSecret # None THEN jwtSecret ELSE "fallback_secret_key"

\* jwt.sign({id, email, role}, key, {expiresIn}): exp is the time of signing
\* plus the lifetime.
generateToken(user, expiresIn) ==
    [id |-> user.id, email |-> user.email, role |-> user.role,
     key |-> SigningKey, exp |-> now + expiresIn]

\* The request carries no Authorization header.
NoToken == [absent |-> TRUE]

\* A token that was not signed with a key of the server.
ForgedToken ==
    [id |-> "admin1", email |-> "admin1", role |-> "admin",
     key |-> "forged", exp |-> 1 + ThirtyDays]

\* The Authorization headers a request may carry: none, a forged token, a
\* token that login issued.
Presented == tokens \cup {NoToken, ForgedToken}

\* jwt.verify(token, process.env.JWT_SECRET): it throws without a secret, for
\* a token signed with another key and for a token whose exp is reached.
JwtVerify(token) ==
    /\ jwtSecret # None
    /\ token.key = jwtSecret
    /\ now < token.exp

\* exports.protect up to its await: the answer 401 for a request without a
\* token or with one that jwt.verify rejects; otherwise decoded.id, the user
\* that User.findById is asked for.
protect(token) ==
    IF token = NoToken
    THEN [next |-> FALSE, resp |-> 401, id |-> None]
    ELSE IF ~JwtVerify(token)
    THEN [next |-> FALSE, resp |-> 401, id |-> None]
    ELSE [next |-> TRUE, resp |-> 0, id |-> token.id]

\* req.user && req.user.role === 'admin'
IsAdmin(user) == user # NoDoc /\ user.role = "admin"

\* exports.adminAuth, the callback it gives to protect: run with req.user as
\* User.findById returned it, it calls next() or answers 403.
adminAuth(user) ==
    IF IsAdmin(user) THEN [next |-> TRUE, resp |-> 0]
                     ELSE [next |-> FALSE, resp |-> 403]

\* User.findOne({email, role: {$in: ['admin', 'super_admin']}, status: 'active'})
FindActiveAdmin(email) ==
    LET u == FindUserByEmail(email) IN
    IF u # NoDoc /\ u.role \in {"admin", "super_admin"} /\ u.status = "active"
    THEN u ELSE NoDoc

\* ------------------------------------------------------------ the handlers

\* A request is taken by the first handler that is free.
Free(h) == pc[h] = "idle" /\ \A k \in Handlers : k < h => pc[k] # "idle"

\* The handler h takes a new request.
Accept(h) ==
    /\ Free(h)
    /\ served < MaxRequests
    /\ served' = served + 1

\* A request as the handler keeps it: the route, what the request asked for,
\* the booking and the amount it named.
Request(kind, event, bookingId, amount) ==
    [kind |-> kind, event |-> event, booking |-> bookingId, amount |-> amount]

\* The status of the payment a handler found (none: it found no payment).
\* Where a handler was stopped by an error before it found a payment, the
\* answer records the error in its place.
Seen(payment) == IF payment = NoDoc THEN "none" ELSE payment.status

\* res.status(code): the handler ends.
Answer(h, r, seen, code) ==
    /\ pc' = [pc EXCEPT ![h] = "idle"]
    /\ req' = [req EXCEPT ![h] = NoReq]
    /\ loaded' = [loaded EXCEPT ![h] = NoDoc]
    /\ doc' = [doc EXCEPT ![h] = NoDoc]
    /\ bookingDoc' = [bookingDoc EXCEPT ![h] = NoDoc]
    /\ last' = [kind |-> r.kind, event |-> r.event, seen |-> seen, resp |-> code]

\* The handler goes on to its next await, holding the booking document b.
AwaitBooking(h, at, r, old, new, b) ==
    /\ pc' = [pc EXCEPT ![h] = at]
    /\ req' = [req EXCEPT ![h] = r]
    /\ loaded' = [loaded EXCEPT ![h] = old]
    /\ doc' = [doc EXCEPT ![h] = new]
    /\ bookingDoc' = [bookingDoc EXCEPT ![h] = b]
    /\ UNCHANGED last

\* The handler goes on to its next await.
Await(h, at, r, old, new) == AwaitBooking(h, at, r, old, new, bookingDoc[h])

\* Payment.findOne({reference})
FindByReference(ref) == IF ref \in DOMAIN payments THEN payments[ref] ELSE NoDoc

\* Booking.findById(id), Booking.findOne({bookingId}): null for a booking that
\* was never stored or was deleted.
FindBooking(id) == IF id \in DOMAIN bookings THEN bookings[id] ELSE NoDoc

\* Booking.findOne({_id: bookingId, user: req.user._id}): the Booking schema
\* has no path user and no route stores one.  With strictQuery the filter
\* path is dropped and the booking is found by its id; without it the filter
\* asks for a field no booking has.
BookingOfUser(bookingId) ==
    IF strictQuery THEN FindBooking(bookingId) ELSE NoDoc

\* The lookup of an existing payment with completed as its only status.
ExistingPaymentCompletedOnly(bookingId) ==
    {r \in DOMAIN payments : /\ payments[r].booking = bookingId
                             /\ payments[r].status = "completed"}

\* The user of the requests to the payment routes, and who posted each
\* booking: POST /bookings stores the request's body; the Booking schema has
\* no path for the user and the stored document keeps none.
Requester == "u1"
BookingCreator ==
    [b \in Bookings \cup {NewBookingId} |-> IF b = "b2" THEN "u2" ELSE "u1"]

\* Payment.findOne({booking, status: {$in: ['completed', 'processing']}})
ExistingPayment(bookingId) ==
    {r \in DOMAIN payments : /\ payments[r].booking = bookingId
                             /\ payments[r].status \in {"completed", "processing"}}

\* save() of a new document: validation runs before the pre('save') hooks.
SaveNew(d, t, g) ==
    IF Validate(d) THEN [ok |-> TRUE, doc |-> PreSave(d, t, g)]
                   ELSE [ok |-> FALSE, doc |-> d]

\* this.save() of a loaded payment document d, when it is called at time t:
\* the pre('save') hook runs on the document before the update is sent.
CallSave(d, t) == PreSave(d, t, None)

\* The landing of the save() of the payment document p (loaded as old): the
\* update of the modified paths, which the unique index may refuse.
SaveLoaded(old, p) ==
    LET ref == old.reference
    IN IF DuplicateKey(ref, p) /\ "transactionId" \in ModifiedPaths(old, p)
       THEN [ok |-> FALSE, doc |-> p, stored |-> payments[ref]]
       ELSE [ok |-> TRUE, doc |-> p, stored |-> UpdateOne(payments[ref], old, p)]

\* POST /initialize: the test of the body and Booking.findOne.
InitializeRequest(h, bookingId, amount, paymentMethod) ==
    /\ Accept(h)
    /\ UNCHANGED <<payments, bookings, now, strictQuery>>
    /\ LET r == Request("initialize", paymentMethod, bookingId, amount) IN
       IF bookingId = None \/ amount = 0
       THEN Answer(h, r, "none", 400)
       ELSE IF BookingOfUser(bookingId) = NoDoc
       THEN Answer(h, r, "none", 404)
       ELSE Await(h, "i_existing", r, NoDoc, NoDoc)

\* POST /initialize: Payment.findOne for an existing payment of the booking,
\* then new Payment({...}).
InitializeExisting(h) ==
    /\ pc[h] = "i_existing"
    /\ UNCHANGED <<payments, bookings, now, strictQuery, served>>
    /\ IF ExistingPayment(req[h].booking) # {}
       THEN Answer(h, req[h], "existing", 400)
       ELSE Await(h, "i_save", req[h], NoDoc,
                  NewPayment(req[h].booking, req[h].amount, req[h].event, None))

\* POST /initialize from payment.save() on, one await at a time: the landing
\* of the save of the new payment (then the cash answer or the call to the
\* provider), the provider's answer (then status processing and save()), the
\* landing of that save.
InitializeContinue(h) ==
    /\ pc[h] \in {"i_save", "i_provider", "i_processing"}
    /\ UNCHANGED <<bookings, now, strictQuery, served>>
    /\ IF pc[h] = "i_processing"
       THEN LET ref == doc[h].reference IN
            /\ payments' = [payments EXCEPT
                              ![ref] = UpdateOne(payments[ref], loaded[h], doc[h])]
            /\ Answer(h, req[h], doc[h].status, 201)
       ELSE IF pc[h] = "i_save"
       THEN \E g \in GenRefs \ DOMAIN payments :
              LET s == SaveNew(doc[h], now, g) IN
              IF ~s.ok
              THEN /\ Answer(h, req[h], "ValidationError", 500)
                   /\ UNCHANGED payments
              ELSE /\ payments' = (g :> s.doc) @@ payments
                   /\ IF s.doc.paymentMethod = "cash"
                      THEN Answer(h, req[h], s.doc.status, 201)
                      ELSE Await(h, "i_provider", req[h], s.doc, s.doc)
       ELSE \E reply \in {"ok", "refused", "error"} :
              IF reply = "ok"
              THEN LET d == [doc[h] EXCEPT !.status = "processing",
                                           !.providerResponse = [status |-> "authorization"]]
                   IN /\ Await(h, "i_processing", req[h], loaded[h], CallSave(d, now))
                      /\ UNCHANGED payments
              ELSE /\ Answer(h, req[h], doc[h].status, 500)
                   /\ UNCHANGED payments

\* POST /verify/:reference: Payment.findOne({reference}).
VerifyRequest(h, reference) ==
    /\ Accept(h)
    /\ UNCHANGED <<payments, bookings, now, strictQuery>>
    /\ LET payment == FindByReference(reference)
           r == Request("verify", "none", None, 0)
       IN
       IF payment = NoDoc
       THEN Answer(h, r, "none", 404)
       ELSE Await(h, "v_populate", r, payment, payment)

\* POST /verify/:reference: populate('booking'), the query for the payment's
\* booking, then the answer for a cash payment or the call to the provider.
VerifyPopulate(h) ==
    /\ pc[h] = "v_populate"
    /\ UNCHANGED <<payments, bookings, now, strictQuery, served>>
    /\ IF loaded[h].paymentMethod = "cash"
       THEN Answer(h, req[h], loaded[h].status, 200)
       ELSE AwaitBooking(h, "v_provider", req[h], loaded[h], doc[h],
                         FindBooking(loaded[h].booking))

\* The call to the provider without the exception for a failed transport.
ProviderThrowsNever(status) == FALSE

\* axios.get(...) rejects: the transport failed or the provider answered with
\* an error status.
ProviderThrows(status) == status = "error"

\* POST /verify/:reference, the provider's answer: the catch for a failed
\* call; otherwise markAsCompleted or markAsFailed assign on the handler's
\* document, at the time of the answer, and call save().
VerifyProvider(h, status) ==
    /\ pc[h] = "v_provider"
    /\ UNCHANGED <<payments, bookings, now, strictQuery, served>>
    /\ LET ref  == loaded[h].reference
           data == [status |-> status, id |-> ProviderTxId(ref)]
           r    == Request("verify", status, None, 0)
       IN
       IF ProviderThrows(status)
       THEN Answer(h, r, loaded[h].status, 500)
       ELSE IF status = "success"
       THEN Await(h, "v_save", r, loaded[h],
                  CallSave(MarkAsCompleted(doc[h], data.id, data, now), now))
       ELSE Await(h, "v_save", r, loaded[h],
                  CallSave(MarkAsFailed(doc[h], "Payment verification failed", data), now))

\* POST /verify/:reference: the landing of the save() of markAsCompleted or
\* markAsFailed; after a completion the handler assigns on the populated
\* booking and calls its save().
VerifySave(h) ==
    /\ pc[h] = "v_save"
    /\ UNCHANGED <<bookings, now, strictQuery, served>>
    /\ LET s   == SaveLoaded(loaded[h], doc[h])
           ref == loaded[h].reference
       IN /\ payments' = [payments EXCEPT ![ref] = s.stored]
          /\ IF ~s.ok
             THEN Answer(h, req[h], loaded[h].status, 500)
             ELSE IF req[h].event = "success" /\ bookingDoc[h] # NoDoc
             THEN Await(h, "v_booking", req[h], loaded[h], s.doc)
             ELSE Answer(h, req[h], loaded[h].status, 200)

\* booking.status = 'confirmed'; booking.paymentStatus = 'paid' on the
\* handler's document; paymentStatus is no path of the Booking schema and is
\* not kept.
ConfirmBooking(b) == [b EXCEPT !.status = "confirmed"]

\* booking.save() of the handler's document (loaded as old): the update of
\* the modified paths on the stored booking.
SaveBooking(stored, old, new) ==
    [stored EXCEPT !.status = IF new.status # old.status THEN new.status ELSE @]

\* The landing of booking.save() for the booking id, loaded as old: the
\* booking was deleted and the save rejects, the database rejects the write,
\* or the modified paths are written.
BookingSaved(h, id, old) ==
    IF FindBooking(id) = NoDoc
    THEN /\ bookings' = bookings
         /\ Answer(h, req[h], loaded[h].status, 500)
    ELSE \E saved \in BOOLEAN :
            IF saved
            THEN /\ bookings' = [bookings EXCEPT
                                   ![id] = SaveBooking(@, old, ConfirmBooking(old))]
                 /\ Answer(h, req[h], loaded[h].status, 200)
            ELSE /\ bookings' = bookings
                 /\ Answer(h, req[h], loaded[h].status, 500)

\* POST /verify/:reference: payment.booking.save() and the answer.
VerifyBooking(h) ==
    /\ pc[h] = "v_booking"
    /\ UNCHANGED <<payments, now, strictQuery, served>>
    /\ BookingSaved(h, loaded[h].booking, bookingDoc[h])

\* The charge.success branch without its test of the status.
WebhookCompletesUnguarded(payment) == payment # NoDoc

\* Whether the charge.success branch of the webhook completes the payment.
WebhookCompletes(payment) == payment # NoDoc /\ payment.status # "completed"

\* POST /webhook/paystack, to payment.save().
WebhookRequest(h, event, signature) ==
    /\ Accept(h)
    /\ UNCHANGED <<payments, bookings, now, strictQuery>>
    /\ LET body    == RawBody(event)
           parsed  == JsonParse(body)
           payment == FindByReference(parsed.data.reference)
           r       == Request("webhook", parsed.event, None, 0)
       IN
       IF Falsy(signature) \/ ~verifyPaystackSignature(body, signature)
       THEN Answer(h, Request("webhook", "none", None, 0), "none", 400)
       ELSE IF parsed.event = "charge.success"
       THEN IF WebhookCompletes(payment)
            THEN Await(h, "w_save", r, payment,
                       CallSave(MarkAsCompleted(payment, parsed.data.id, parsed.data, now),
                                now))
            ELSE Answer(h, r, Seen(payment), 200)
       ELSE IF parsed.event = "charge.failed"
       THEN IF payment # NoDoc
            THEN Await(h, "w_save", r, payment,
                       CallSave(MarkAsFailed(payment, "Payment failed", parsed.data), now))
            ELSE Answer(h, r, "none", 200)
       ELSE Answer(h, r, "none", 200)

\* POST /webhook/paystack: the write of payment.save().
WebhookSave(h) ==
    /\ pc[h] = "w_save"
    /\ UNCHANGED <<bookings, now, strictQuery, served>>
    /\ LET s   == SaveLoaded(loaded[h], doc[h])
           ref == loaded[h].reference
       IN /\ payments' = [payments EXCEPT ![ref] = s.stored]
          /\ IF ~s.ok
             THEN Answer(h, req[h], loaded[h].status, 500)
             ELSE IF req[h].event = "charge.success"
             THEN Await(h, "w_booking", req[h], loaded[h], s.doc)
             ELSE Answer(h, req[h], loaded[h].status, 200)

\* POST /webhook/paystack: Booking.findById(payment.booking).
WebhookBooking(h) ==
    /\ pc[h] = "w_booking"
    /\ UNCHANGED <<payments, bookings, now, strictQuery, served>>
    /\ IF FindBooking(doc[h].booking) = NoDoc
       THEN Answer(h, req[h], loaded[h].status, 200)
       ELSE AwaitBooking(h, "w_booking_save", req[h], loaded[h], doc[h],
                         FindBooking(doc[h].booking))

\* POST /webhook/paystack: booking.save() and the answer.
WebhookBookingSave(h) ==
    /\ pc[h] = "w_booking_save"
    /\ UNCHANGED <<payments, now, strictQuery, served>>
    /\ BookingSaved(h, doc[h].booking, bookingDoc[h])

\* An administrative refund (spec.md, Refund).  No route or script of the
\* source calls processRefund: the caller is taken from the specification, as
\* a handler that loads the payment by its reference and calls the method,
\* which throws or assigns and calls save().
RefundRequest(h, ref, amount) ==
    /\ Accept(h)
    /\ ref \in DOMAIN payments
    /\ UNCHANGED <<payments, bookings, now, strictQuery>>
    /\ LET payment == FindByReference(ref) IN
       IF RefundThrows(payment, amount)
       THEN Answer(h, Request("refund", "thrown", None, amount), payment.status, 0)
       ELSE Await(h, "r_save", Request("refund", "none", None, amount), payment,
                  CallSave(ProcessRefund(payment, amount, now), now))

\* The write of processRefund's save().
RefundSave(h) ==
    /\ pc[h] = "r_save"
    /\ UNCHANGED <<bookings, now, strictQuery, served>>
    /\ LET s   == SaveLoaded(loaded[h], doc[h])
           ref == loaded[h].reference
       IN /\ payments' = [payments EXCEPT ![ref] = s.stored]
          /\ Answer(h, req[h], loaded[h].status, 0)

\* ----------------------------------------- the booking routes (routes/booking.js)

\* new Booking(req.body): the document with the schema's default status.
NewBooking(status) ==
    [status |-> IF status = None THEN "pending" ELSE status, paymentStatus |-> None]

\* POST /bookings: new Booking(req.body), save(); sendConfirmationEmail and
\* sendSMSNotification wait for nothing, and the answer follows the save.
CreateBooking(h, status) ==
    /\ Accept(h)
    /\ NewBookingId \notin DOMAIN bookings
    /\ UNCHANGED <<payments, now, strictQuery>>
    /\ LET r == Request("booking.create", status, NewBookingId, 0) IN
       IF NewBooking(status).status \notin BookingStatuses
       THEN /\ bookings' = bookings
            /\ Answer(h, r, "none", 400)
       ELSE /\ bookings' = (NewBookingId :> NewBooking(status)) @@ bookings
            /\ Answer(h, r, "none", 201)

\* Booking.findOneAndUpdate({bookingId}, {status}) and the answer.
UpdateBooking(h, r) ==
    IF FindBooking(r.booking) = NoDoc
    THEN /\ bookings' = bookings
         /\ Answer(h, r, "none", 404)
    ELSE /\ bookings' = [bookings EXCEPT ![r.booking].status = r.event]
         /\ Answer(h, r, bookings[r.booking].status, 200)

\* PATCH /bookings/:bookingId/status
UpdateBookingStatus(h, bookingId, status) ==
    /\ Accept(h)
    /\ UNCHANGED <<payments, now, strictQuery>>
    /\ LET r == Request("booking.status", status, bookingId, 0) IN
       IF status \notin BookingStatuses
       THEN /\ bookings' = bookings
            /\ Answer(h, r, "none", 400)
       ELSE UpdateBooking(h, r)

\* DELETE /bookings/:bookingId: the booking is cancelled.
CancelBooking(h, bookingId) ==
    /\ Accept(h)
    /\ UNCHANGED <<payments, now, strictQuery>>
    /\ UpdateBooking(h, Request("booking.cancel", "cancelled", bookingId, 0))

\* The request r as a handler behind a guard keeps it: with decoded.id, the
\* user that protect asks for.
Guarded(r, id) ==
    [kind |-> r.kind, event |-> r.event, booking |-> r.booking, amount |-> r.amount,
     user |-> id]

\* A request to a booking route behind adminAuth arrives: protect up to
\* User.findById.
GuardedBookingRequest(h, token, r) ==
    /\ Accept(h)
    /\ UNCHANGED <<payments, bookings, now, strictQuery>>
    /\ LET p == protect(token) IN
       IF p.next THEN Await(h, "b_user", Guarded(r, p.id), NoDoc, NoDoc)
                 ELSE Answer(h, r, "none", p.resp)

\* A booking route behind adminAuth: User.findById lands, adminAuth tests the
\* role, and the route's handler sends its query.
BookingGuardUser(h) ==
    /\ pc[h] = "b_user"
    /\ UNCHANGED <<payments, bookings, now, strictQuery, served>>
    /\ IF adminAuth(FindUserById(req[h].user)).next
       THEN Await(h, IF req[h].kind = "booking.edit" THEN "e_update" ELSE "x_delete",
                  req[h], NoDoc, NoDoc)
       ELSE Answer(h, req[h], "none", adminAuth(FindUserById(req[h].user)).resp)

\* PUT /bookings/:bookingId/edit behind adminAuth: the request arrives.
EditBookingRequest(h, token, bookingId, status) ==
    GuardedBookingRequest(h, token, Request("booking.edit", status, bookingId, 0))

\* PUT /bookings/:bookingId/edit: Booking.findOneAndUpdate with the body.
EditBookingUpdate(h) ==
    /\ pc[h] = "e_update"
    /\ UNCHANGED <<payments, now, strictQuery, served>>
    /\ UpdateBooking(h, req[h])

\* DELETE /bookings/:bookingId/admin behind adminAuth: the request arrives.
DeleteBookingRequest(h, token, bookingId) ==
    GuardedBookingRequest(h, token, Request("booking.delete", "none", bookingId, 0))

\* DELETE /bookings/:bookingId/admin: Booking.findOneAndDelete.
DeleteBookingDelete(h) ==
    /\ pc[h] = "x_delete"
    /\ UNCHANGED <<payments, now, strictQuery, served>>
    /\ IF FindBooking(req[h].booking) = NoDoc
       THEN /\ bookings' = bookings
            /\ Answer(h, req[h], "none", 404)
       ELSE /\ bookings' = [bookings EXCEPT ![req[h].booking] = NoDoc]
            /\ Answer(h, req[h], bookings[req[h].booking].status, 200)

\* Time passes between two calls of new Date().
Tick ==
    /\ now < MaxClock
    /\ now' = now + 1
    /\ UNCHANGED <<payments, bookings, strictQuery, pc, req, loaded, doc, bookingDoc,
                   last, served>>

\* ------------------------------ the account routes (routes/admin.js, createAdmin.js)

\* The answer of an account route or the exit of the script: the route, the
\* status, whether the route's handler was run, what it returned.
AuthAnswer(h, route, resp, ran, body) ==
    /\ pc' = [pc EXCEPT ![h] = "idle"]
    /\ req' = [req EXCEPT ![h] = NoReq]
    /\ loaded' = [loaded EXCEPT ![h] = NoDoc]
    /\ authLast' = [route |-> route, resp |-> resp, ran |-> ran, body |-> body]

\* The handler of an account route goes on to its next await.
AuthAwait(h, at, r, user) ==
    /\ pc' = [pc EXCEPT ![h] = at]
    /\ req' = [req EXCEPT ![h] = r]
    /\ loaded' = [loaded EXCEPT ![h] = user]
    /\ UNCHANGED authLast

\* save() of a loaded user (loaded as old): the modified paths among role and
\* status are written to the stored document.
SaveUser(stored, old, new) ==
    [stored EXCEPT !.role = IF new.role # old.role THEN new.role ELSE @,
                   !.status = IF new.status # old.status THEN new.status ELSE @]

\* The script createAdmin: User.findOne({email: 'goldbondadmin@gmail.com'}).
CreateAdminFind(h) ==
    /\ Accept(h)
    /\ UNCHANGED <<users, tokens, jwtSecret, now>>
    /\ UNCHANGED paymentVars
    /\ LET existingAdmin == FindUserByEmail("goldbondadmin")
           r == Request("createAdmin", "none", None, 0)
       IN IF existingAdmin # NoDoc
          THEN AuthAwait(h, "c_save", r, existingAdmin)
          ELSE AuthAwait(h, "c_create", r, NoDoc)

\* createAdmin: existingAdmin.save() with role super_admin, status active and
\* the password; it rejects when the document is no longer stored.
CreateAdminSave(h) ==
    /\ pc[h] = "c_save"
    /\ UNCHANGED <<tokens, jwtSecret, now, served>>
    /\ UNCHANGED paymentVars
    /\ IF FindUserById(loaded[h].id) = NoDoc
       THEN /\ users' = users
            /\ AuthAnswer(h, "createAdmin", 1, TRUE, 0)
       ELSE /\ users' = [users EXCEPT ![loaded[h].id] =
                           SaveUser(@, loaded[h],
                                    [loaded[h] EXCEPT !.role = "super_admin",
                                                      !.status = "active"])]
            /\ AuthAnswer(h, "createAdmin", 0, TRUE, 0)

\* createAdmin: User.create({...}); the unique index on email rejects a second
\* account.
CreateAdminCreate(h) ==
    /\ pc[h] = "c_create"
    /\ UNCHANGED <<tokens, jwtSecret, now, served>>
    /\ UNCHANGED paymentVars
    /\ LET n == 1 + Cardinality(DOMAIN users \cap NewUserIds) IN
       IF IdsOfEmail("goldbondadmin") # {}
       THEN /\ users' = users
            /\ AuthAnswer(h, "createAdmin", 1, TRUE, 0)
       ELSE /\ n <= MaxAccounts
            /\ users' = (NewUserId(n) :> [email |-> "goldbondadmin",
                                          role |-> "super_admin",
                                          status |-> "active"]) @@ users
            /\ AuthAnswer(h, "createAdmin", 0, TRUE, 0)

\* POST /admin/login: the test of the body and User.findOne; the handler then
\* calls comparePassword.
LoginRequest(h, email, password, remember) ==
    /\ Accept(h)
    /\ UNCHANGED <<users, tokens, jwtSecret, now>>
    /\ UNCHANGED paymentVars
    /\ LET admin == FindActiveAdmin(email)
           r == [kind |-> "login", event |-> IF remember THEN "remember" ELSE "none",
                 booking |-> None, amount |-> 0, password |-> password]
       IN IF email = None \/ password = None
          THEN AuthAnswer(h, "login", 400, FALSE, 0)
          ELSE IF admin = NoDoc
          THEN AuthAnswer(h, "login", 401, FALSE, 0)
          ELSE AuthAwait(h, "l_compare", r, admin)

\* POST /admin/login: comparePassword returns; for the right password the
\* handler assigns lastLogin and calls admin.save().
LoginCompare(h) ==
    /\ pc[h] = "l_compare"
    /\ UNCHANGED <<users, tokens, jwtSecret, now, served>>
    /\ UNCHANGED paymentVars
    /\ IF req[h].password # "right"
       THEN AuthAnswer(h, "login", 401, FALSE, 0)
       ELSE AuthAwait(h, "l_save", req[h], loaded[h])

\* POST /admin/login: admin.save() of lastLogin, which rejects when the account
\* is no longer stored, then generateToken and the answer.
LoginSave(h) ==
    /\ pc[h] = "l_save"
    /\ UNCHANGED <<users, jwtSecret, now, served>>
    /\ UNCHANGED paymentVars
    /\ IF FindUserById(loaded[h].id) = NoDoc
       THEN /\ tokens' = tokens
            /\ AuthAnswer(h, "login", 500, TRUE, 0)
       ELSE /\ tokens' = tokens \cup
                 {generateToken(loaded[h], IF req[h].event = "remember"
                                           THEN ThirtyDays ELSE EightHours)}
            /\ AuthAnswer(h, "login", 200, TRUE, 0)

\* The body of a request that sets no path.
NoUpdate == [role |-> None, status |-> None]

\* A request to an admin route as its handler keeps it: the route, the :id
\* of the path, the body, decoded.id, and the count a handler has read.
AdminRequest(kind, id, update, user) ==
    [kind |-> kind, event |-> id, booking |-> None, amount |-> 0,
     update |-> update, user |-> user]

\* The await at which the handler of an admin route starts.
FirstQuery(kind) ==
    CASE kind = "stats"  -> "s_count"
      [] kind = "delete" -> "d_delete"
      [] kind = "update" -> "u_update"

\* A request to a route behind adminAuth arrives: protect up to User.findById.
GuardedRequest(h, token, kind, id, update) ==
    /\ Accept(h)
    /\ UNCHANGED <<users, tokens, jwtSecret, now>>
    /\ UNCHANGED paymentVars
    /\ LET p == protect(token) IN
       IF p.next THEN AuthAwait(h, "a_user", AdminRequest(kind, id, update, p.id), NoDoc)
                 ELSE AuthAnswer(h, kind, p.resp, FALSE, 0)

\* A route behind adminAuth: User.findById lands, adminAuth tests the role of
\* req.user, and the route's handler sends its first query.
GuardUser(h) ==
    /\ pc[h] = "a_user"
    /\ UNCHANGED <<users, tokens, jwtSecret, now, served>>
    /\ UNCHANGED paymentVars
    /\ LET user == FindUserById(req[h].user) IN
       IF adminAuth(user).next
       THEN AuthAwait(h, FirstQuery(req[h].kind), req[h], user)
       ELSE AuthAnswer(h, req[h].kind, adminAuth(user).resp, FALSE, 0)

\* GET /admin/dashboard/stats behind adminAuth: the request arrives.
StatsRequest(h, token) == GuardedRequest(h, token, "stats", None, NoUpdate)

\* User.countDocuments({status: 'active', role: 'user'})
ActivePatients ==
    Cardinality({id \in DOMAIN users : /\ users[id] # NoDoc
                                       /\ users[id].status = "active"
                                       /\ users[id].role = "user"})

\* GET /admin/dashboard/stats: User.countDocuments lands; the handler keeps
\* the count and sends the first TestResult.countDocuments.
StatsCount(h) ==
    /\ pc[h] = "s_count"
    /\ UNCHANGED <<users, tokens, jwtSecret, now, served>>
    /\ UNCHANGED paymentVars
    /\ AuthAwait(h, "s_total", [req[h] EXCEPT !.amount = ActivePatients], loaded[h])

\* GET /admin/dashboard/stats: the three TestResult.countDocuments land one
\* after the other; after the last the handler answers with the counts it
\* has kept.
StatsResults(h) ==
    /\ pc[h] \in {"s_total", "s_pending", "s_completed"}
    /\ UNCHANGED <<users, tokens, jwtSecret, now, served>>
    /\ UNCHANGED paymentVars
    /\ IF pc[h] = "s_total" THEN AuthAwait(h, "s_pending", req[h], loaded[h])
       ELSE IF pc[h] = "s_pending" THEN AuthAwait(h, "s_completed", req[h], loaded[h])
       ELSE AuthAnswer(h, "stats", 200, TRUE, req[h].amount)

\* DELETE /admin/patients/:id behind adminAuth: the request arrives.
DeletePatientRequest(h, token, id) == GuardedRequest(h, token, "delete", id, NoUpdate)

\* DELETE /admin/patients/:id: User.findByIdAndDelete.
DeletePatientDelete(h) ==
    /\ pc[h] = "d_delete"
    /\ UNCHANGED <<tokens, jwtSecret, now, served>>
    /\ UNCHANGED paymentVars
    /\ users' = IF req[h].event \in DOMAIN users
                THEN [users EXCEPT ![req[h].event] = NoDoc]
                ELSE users
    /\ AuthAnswer(h, "delete", 200, TRUE, 0)

\* The bodies of PUT /admin/patients/:id: the paths a request sets.
PatientUpdates ==
    {[role |-> "admin", status |-> None],
     [role |-> "user", status |-> "suspended"]}

\* PUT /admin/patients/:id behind adminAuth: the request arrives.
UpdatePatientRequest(h, token, id, update) ==
    GuardedRequest(h, token, "update", id, update)

\* PUT /admin/patients/:id: User.findByIdAndUpdate(id, req.body).
UpdatePatientUpdate(h) ==
    /\ pc[h] = "u_update"
    /\ UNCHANGED <<tokens, jwtSecret, now, served>>
    /\ UNCHANGED paymentVars
    /\ LET id == req[h].event
           update == req[h].update
       IN IF FindUserById(id) = NoDoc
          THEN /\ users' = users
               /\ AuthAnswer(h, "update", 404, TRUE, 0)
          ELSE /\ users' = [users EXCEPT
                              ![id].role = IF update.role # None THEN update.role ELSE @,
                              ![id].status = IF update.status # None THEN update.status ELSE @]
               /\ AuthAnswer(h, "update", 200, TRUE, 0)

\* A request with a valid body to POST /initialize behind protect arrives:
\* protect up to User.findById.
ProtectedInitialize(h, token) ==
    /\ Accept(h)
    /\ UNCHANGED <<users, tokens, jwtSecret, now>>
    /\ UNCHANGED paymentVars
    /\ LET p == protect(token) IN
       IF p.next THEN AuthAwait(h, "p_user", AdminRequest("initialize", None, NoUpdate, p.id), NoDoc)
                 ELSE AuthAnswer(h, "initialize", p.resp, FALSE, 0)

\* POST /initialize behind protect: User.findById lands and protect calls
\* next() whatever it returned; the handler's first use of req.user,
\* req.user._id, throws for a null user and the catch answers 500; otherwise
\* the handler goes on (answer 0: not yet given).
ProtectedInitializeUser(h) ==
    /\ pc[h] = "p_user"
    /\ UNCHANGED <<users, tokens, jwtSecret, now, served>>
    /\ UNCHANGED paymentVars
    /\ IF FindUserById(req[h].user) = NoDoc
       THEN AuthAnswer(h, "initialize", 500, TRUE, 0)
       ELSE AuthAnswer(h, "initialize", 0, TRUE, 0)

\* Eight hours pass.
Later ==
    /\ now + EightHours <= MaxHours
    /\ now' = now + EightHours
    /\ UNCHANGED <<payments, bookings, strictQuery, pc, req, loaded, doc, bookingDoc,
                   last, served, users, tokens, jwtSecret, authLast>>

\* ------------------------------------------------------------ the requests

\* The events a webhook request may carry: the id is the provider's id of the
\* transaction, or the id of another transaction.
WebhookEvents ==
    {e \in [event : {"charge.success", "charge.failed", "other"},
            data  : [reference : SeedRefs \cup {UnknownRef},
                     id : {ProviderTxId(r) : r \in SeedRefs}]] :
        e.data.id \in {ProviderTxId(e.data.reference), ProviderTxId("PAY_1")}}

\* The amounts asked to be refunded: a part of the payment, and more than it.
RefundAmounts == {1, MaxAmount + 1}

\* The headers a webhook request may carry: none, an empty one, the
\* provider's signature of the bytes, the HMAC of the re-serialized body, and
\* a signature made with another key.
Signatures(event) ==
    {NoSignature,
     EmptySignature,
     ProviderSignature(RawBody(event)),
     Hmac(PAYSTACK_SECRET_KEY, JsonStringify(RawBody(event))),
     Hmac("sk_other", JsonStringify(RawBody(event)))}

\* The bookings a request to a booking route may name, and the statuses its
\* body may carry.
BookingIds == Bookings \cup {NewBookingId, UnknownBooking}
BodyStatuses == {"confirmed", "cancelled", "completed", "bogus"}

\* The payments the collection holds when the server starts, each stored with
\* its reference, at most one per booking that is neither failed nor cancelled.
\* PAY_1 is an online payment in processing for booking b1; PAY_2 is an online
\* payment for the same booking that a verify call has marked failed, or a
\* pending cash payment for booking b2.
SeedPayments ==
    {f \in [SeedRefs -> [booking : Bookings, paymentMethod : Methods,
                         status : {"pending", "processing", "failed", "completed"}]] :
        /\ f["PAY_1"] \in {[booking |-> "b1", paymentMethod |-> "card", status |-> "processing"],
                           [booking |-> "b1", paymentMethod |-> "card", status |-> "completed"]}
        /\ f["PAY_2"] \in {[booking |-> "b1", paymentMethod |-> "card", status |-> "failed"],
                           [booking |-> "b2", paymentMethod |-> "cash", status |-> "pending"]}}

\* The stored document of a seed payment.
SeedDocument(r, s) ==
    LET d == NewPayment(s.booking, MaxAmount, s.paymentMethod, r) IN
    IF s.status = "failed"
    THEN MarkAsFailed([d EXCEPT !.status = "processing"], "Payment verification failed",
                      [status |-> "failed", id |-> ProviderTxId(r)])
    ELSE IF s.status = "completed"
    THEN MarkAsCompleted([d EXCEPT !.status = "processing"], ProviderTxId(r),
                         [status |-> "success", id |-> ProviderTxId(r)], 1)
    ELSE [d EXCEPT !.status = s.status]

PaymentsStart ==
    /\ \E f \in SeedPayments :
          /\ payments = [r \in SeedRefs |-> SeedDocument(r, f[r])]
          /\ bookings = [b \in Bookings |->
                          IF \E r \in SeedRefs : f[r].booking = b /\ f[r].status = "completed"
                          THEN ConfirmBooking(NewBooking(None)) ELSE NewBooking(None)]
    /\ now = 1
    /\ strictQuery \in BOOLEAN
    /\ pc = [h \in Handlers |-> "idle"]
    /\ req = [h \in Handlers |-> NoReq]
    /\ loaded = [h \in Handlers |-> NoDoc]
    /\ doc = [h \in Handlers |-> NoDoc]
    /\ bookingDoc = [h \in Handlers |-> NoDoc]
    /\ last = [kind |-> "none", event |-> "none", seen |-> "none", resp |-> 0]
    /\ served = 0

\* The accounts with goldbondadmin stored as g: an administrator, who has
\* logged in, and a patient.
AccountsWith(g) ==
    /\ users = [id \in {"admin1", "patient1"} \cup (IF g = NoDoc THEN {} ELSE {"g0"}) |->
                  IF id = "g0" THEN g
                  ELSE IF id = "admin1"
                  THEN [email |-> "admin1", role |-> "admin", status |-> "active"]
                  ELSE [email |-> "patient1", role |-> "user", status |-> "active"]]
    /\ tokens = {generateToken(FindUserById("admin1"), EightHours)}
    /\ authLast = [route |-> "none", resp |-> 0, ran |-> FALSE, body |-> 0]

\* The accounts when the server starts: the account goldbondadmin is not made
\* yet, is an account that createAdmin will update, or is the account that
\* createAdmin has made.
AccountsStart ==
    \E g \in {NoDoc,
               [email |-> "goldbondadmin", role |-> "user", status |-> "inactive"],
               [email |-> "goldbondadmin", role |-> "super_admin", status |-> "active"]} :
        AccountsWith(g)

\* The payment and booking routes, with JWT_SECRET in the environment.
Init ==
    /\ PaymentsStart
    /\ jwtSecret = "jwt_secret"
    /\ AccountsWith(NoDoc)

\* The accounts and the guarded routes, with or without JWT_SECRET in the
\* environment.
AuthInit ==
    /\ PaymentsStart
    /\ jwtSecret \in {None, "jwt_secret"}
    /\ AccountsStart

Next ==
    \/ \E h \in Handlers, b \in Bookings \cup {NewBookingId, None}, a \in {0, MaxAmount},
          m \in Methods :
          InitializeRequest(h, b, a, m) /\ UNCHANGED accountVars
    \/ \E h \in Handlers : InitializeExisting(h) /\ UNCHANGED accountVars
    \/ \E h \in Handlers : InitializeContinue(h) /\ UNCHANGED accountVars
    \/ \E h \in Handlers, r \in SeedRefs \cup {UnknownRef} :
          VerifyRequest(h, r) /\ UNCHANGED accountVars
    \/ \E h \in Handlers : VerifyPopulate(h) /\ UNCHANGED accountVars
    \/ \E h \in Handlers, s \in {"success", "failed", "error"} :
          VerifyProvider(h, s) /\ UNCHANGED accountVars
    \/ \E h \in Handlers : VerifySave(h) /\ UNCHANGED accountVars
    \/ \E h \in Handlers : VerifyBooking(h) /\ UNCHANGED accountVars
    \/ \E h \in Handlers, e \in WebhookEvents : \E s \in Signatures(e) :
          WebhookRequest(h, e, s) /\ UNCHANGED accountVars
    \/ \E h \in Handlers : WebhookSave(h) /\ UNCHANGED accountVars
    \/ \E h \in Handlers : WebhookBooking(h) /\ UNCHANGED accountVars
    \/ \E h \in Handlers : WebhookBookingSave(h) /\ UNCHANGED accountVars
    \/ \E h \in Handlers, r \in SeedRefs, a \in RefundAmounts :
          RefundRequest(h, r, a) /\ UNCHANGED accountVars
    \/ \E h \in Handlers : RefundSave(h) /\ UNCHANGED accountVars
    \/ \E h \in Handlers, s \in {None, "confirmed", "bogus"} :
          CreateBooking(h, s) /\ UNCHANGED accountVars
    \/ \E h \in Handlers, b \in BookingIds, s \in BodyStatuses :
          UpdateBookingStatus(h, b, s) /\ UNCHANGED accountVars
    \/ \E h \in Handlers, b \in BookingIds : CancelBooking(h, b) /\ UNCHANGED accountVars
    \/ \E h \in Handlers, t \in Presented, b \in BookingIds, s \in BodyStatuses :
          EditBookingRequest(h, t, b, s) /\ UNCHANGED accountVars
    \/ \E h \in Handlers : BookingGuardUser(h) /\ UNCHANGED accountVars
    \/ \E h \in Handlers : EditBookingUpdate(h) /\ UNCHANGED accountVars
    \/ \E h \in Handlers, t \in Presented, b \in BookingIds :
          DeleteBookingRequest(h, t, b) /\ UNCHANGED accountVars
    \/ \E h \in Handlers : DeleteBookingDelete(h) /\ UNCHANGED accountVars
    \/ Tick /\ UNCHANGED accountVars

AuthNext ==
    \/ \E h \in Handlers : CreateAdminFind(h)
    \/ \E h \in Handlers : CreateAdminSave(h)
    \/ \E h \in Handlers : CreateAdminCreate(h)
    \/ \E h \in Handlers, e \in Emails \cup {None}, pw \in Passwords, remember \in BOOLEAN :
          LoginRequest(h, e, pw, remember)
    \/ \E h \in Handlers : LoginCompare(h)
    \/ \E h \in Handlers : LoginSave(h)
    \/ \E h \in Handlers : GuardUser(h)
    \/ \E h \in Handlers, t \in Presented : StatsRequest(h, t)
    \/ \E h \in Handlers : StatsCount(h)
    \/ \E h \in Handlers : StatsResults(h)
    \/ \E h \in Handlers, t \in Presented, u \in SeedUserIds \cup NewUserIds :
          DeletePatientRequest(h, t, u)
    \/ \E h \in Handlers : DeletePatientDelete(h)
    \/ \E h \in Handlers, t \in Presented, u \in SeedUserIds \cup NewUserIds,
          p \in PatientUpdates : UpdatePatientRequest(h, t, u, p)
    \/ \E h \in Handlers : UpdatePatientUpdate(h)
    \/ \E h \in Handlers, t \in Presented : ProtectedInitialize(h, t)
    \/ \E h \in Handlers : ProtectedInitializeUser(h)
    \/ Later

Spec == Init /\ [][Next]_vars

AuthSpec == AuthInit /\ [][AuthNext]_vars

\* ------------------------------------------------------------- properties

\* The step of handler h that writes its payment.save().
Saves(h) == pc[h] \in {"w_save", "v_save"} /\ pc'[h] # pc[h]

\* The stored payment a handler in flight is working on.
Stored(h) == payments[loaded[h].reference]

\* The handlers that take a new request in this step.
Accepting == {k \in Handlers : Free(k) /\ served' = served + 1}

\* The handlers whose call to the provider in POST /verify returns in this step.
Verifying == {k \in Handlers : pc[k] = "v_provider" /\ pc'[k] # "v_provider"}

\* The step in which the save() of the verify request of handler h lands, the
\* provider having reported the status.
VerifySaves(h, status) ==
    pc[h] = "v_save" /\ pc'[h] # "v_save" /\ req[h].event = status

\* The stored booking with an id in a bookings collection (NoDoc: none).
StoredBooking(collection, id) ==
    IF id \in DOMAIN collection THEN collection[id] ELSE NoDoc

\* C1: a charge.failed webhook handled for a payment that is completed leaves
\* its status completed.
C1_FailedWebhookKeepsCompleted ==
    [][\A h \in Handlers :
          (/\ pc[h] = "w_save" /\ pc'[h] # "w_save"
           /\ req[h].event = "charge.failed"
           /\ loaded[h].status = "completed"
           /\ Stored(h).status = "completed")
          => payments'[loaded[h].reference].status = "completed"]_vars

\* C2: a verify call for a completed online payment to which the provider
\* reports a status other than success leaves the payment completed.
C2_FailedVerifyKeepsCompleted ==
    [][\A h \in Handlers :
          (/\ VerifySaves(h, "failed")
           /\ loaded[h].status = "completed"
           /\ Stored(h).status = "completed")
          => payments'[loaded[h].reference].status = "completed"]_vars

\* C3: when handlers work on one reference concurrently, each finding the
\* payment and saving it later, a save on a payment that another handler has
\* completed in between does not make it failed and does not change the record.
C3_CompletedAbsorbingUnderRace ==
    [][\A h \in Handlers :
          (/\ Saves(h)
           /\ loaded[h].status # "completed"
           /\ Stored(h).status = "completed")
          => /\ payments'[loaded[h].reference].status # "failed"
             /\ payments'[loaded[h].reference] = Stored(h)]_vars

\* The edges of the payment state machine.
Edges ==
    {<<"pending", "processing">>, <<"processing", "completed">>,
     <<"processing", "failed">>, <<"completed", "refunded">>,
     <<"pending", "cancelled">>, <<"processing", "cancelled">>}

\* C4: every change of a payment's status follows an edge of the state machine.
C4_StatusFollowsEdges ==
    [][\A r \in DOMAIN payments :
          payments'[r].status # payments[r].status
          => <<payments[r].status, payments'[r].status>> \in Edges]_vars

\* C5: once a payment is failed, cancelled or refunded its status does not
\* change any more.
C5_TerminalStatuses ==
    [][\A r \in DOMAIN payments :
          payments[r].status \in {"failed", "cancelled", "refunded"}
          => payments'[r].status = payments[r].status]_vars

\* C6: paidAt and verifiedAt, once written, are never changed.
C6_PaidAtSetOnce ==
    [][\A r \in DOMAIN payments :
          payments[r].paidAt # 0
          => /\ payments'[r].paidAt = payments[r].paidAt
             /\ payments'[r].verifiedAt = payments[r].verifiedAt]_vars

\* C7: a verify call for a payment that is completed, to which the provider
\* reports success, leaves the stored payment as it was.
C7_VerifyIdempotentOnCompleted ==
    [][\A h \in Handlers :
          (/\ VerifySaves(h, "success")
           /\ loaded[h].status = "completed"
           /\ Stored(h) = loaded[h])
          => payments'[loaded[h].reference] = Stored(h)]_vars

\* A charge.success webhook taken in this step for a payment that is stored as
\* completed: answered at once, or gone on to a save.
SuccessWebhookOnCompleted ==
    /\ served' = served + 1
    /\ \/ /\ pc' = pc
          /\ last'.kind = "webhook" /\ last'.event = "charge.success"
          /\ last'.seen = "completed"
       \/ \E h \in Handlers :
             /\ pc[h] = "idle" /\ pc'[h] = "w_save"
             /\ req'[h].event = "charge.success"
             /\ loaded'[h].status = "completed"

\* C8: an authenticated charge.success webhook for a payment that is already
\* completed changes neither the payments nor the bookings and is answered 200.
C8_RedeliveredSuccessIsNoOp ==
    [][SuccessWebhookOnCompleted
          => /\ payments' = payments
             /\ bookings' = bookings
             /\ pc' = pc
             /\ last'.resp = 200]_vars

\* C8 witness: a charge.success webhook found its payment completed and was
\* answered 200.
C8_Witness ==
    last = [kind |-> "webhook", event |-> "charge.success",
            seen |-> "completed", resp |-> 200]

\* C9: every booking has at most one payment in processing or completed.
C9_OneActivePaymentPerBooking ==
    \A b \in Bookings :
        Cardinality({r \in DOMAIN payments :
                        /\ payments[r].booking = b
                        /\ payments[r].status \in {"processing", "completed"}}) <= 1

C11_OneLivePaymentPerBooking ==
    \A b \in Bookings :
        Cardinality({r \in DOMAIN payments :
                        /\ payments[r].booking = b
                        /\ payments[r].status \notin {"cancelled", "failed"}}) <= 1

\* The payments of a booking that are in processing or completed.
ActiveOf(b) ==
    {r \in DOMAIN payments : payments[r].booking = b
                             /\ payments[r].status \in {"processing", "completed"}}

\* C12: an Initialize request whose lookup of an existing payment is made
\* while its booking has a payment in processing or completed is answered
\* with an error; it creates no payment, changes no payment and goes no
\* further.
C12_InitializeConflictRejected ==
    [][\A h \in Handlers :
          (/\ pc[h] = "i_existing" /\ pc'[h] # "i_existing"
           /\ ActiveOf(req[h].booking) # {})
          => /\ payments' = payments
             /\ bookings' = bookings
             /\ pc'[h] = "idle"
             /\ last'.kind = "initialize"
             /\ last'.resp = 400]_vars

\* C12 witness: an Initialize request found a payment in processing or
\* completed for its booking and was answered 400.
C12_Witness ==
    last = [kind |-> "initialize", event |-> "card", seen |-> "existing", resp |-> 400]

\* The step of handler h that leaves payment.save() of POST /initialize.
InitializeSaves(h) == pc[h] = "i_save" /\ pc'[h] # "i_save"

\* The step creates exactly one payment, for booking b, in the given status.
CreatesOne(b, status) ==
    \E g \in DOMAIN payments' \ DOMAIN payments :
        /\ DOMAIN payments' = DOMAIN payments \cup {g}
        /\ \A r \in DOMAIN payments : payments'[r] = payments[r]
        /\ payments'[g].booking = b
        /\ payments'[g].reference = g
        /\ payments'[g].status = status

\* C14: an Initialize request with an online method for a booking that has no
\* payment in processing or completed stores exactly one new payment for the
\* booking and goes on to the provider; when the provider accepts, the
\* payment is stored as processing with the provider's payload and the
\* answer is 201.
C14_OnlineInitializeCreatesProcessing ==
    [][\A h \in Handlers :
          /\ (/\ InitializeSaves(h)
              /\ doc[h].paymentMethod # "cash"
              /\ ActiveOf(doc[h].booking) = {})
             => /\ pc'[h] = "i_provider"
                /\ CreatesOne(doc[h].booking, "pending")
          /\ (/\ pc[h] = "i_processing" /\ pc'[h] = "idle"
              /\ last'.resp = 201)
             => /\ payments'[doc[h].reference].status = "processing"
                /\ payments'[doc[h].reference].providerResponse # NoResponse]_vars

\* C15: an Initialize request with the method cash stores the new payment as
\* pending and is answered 201 at once, without a call to the provider.
C15_CashInitializeStaysPending ==
    [][\A h \in Handlers :
          (InitializeSaves(h) /\ doc[h].paymentMethod = "cash")
          => /\ pc'[h] = "idle"
             /\ last'.kind = "initialize"
             /\ last'.resp = 201
             /\ last'.seen = "pending"
             /\ CreatesOne(doc[h].booking, "pending")]_vars

\* C16: when the handler of an authenticated charge.success webhook that found
\* its payment in processing returns, the payment is stored as completed with
\* paidAt, verified, verifiedAt and the provider's transaction id, and the
\* stored booking has status confirmed and paymentStatus paid.
C16_SuccessWebhookCompletesAndConfirms ==
    [][\A h \in Handlers :
          (/\ pc[h] \in {"w_booking", "w_booking_save"} /\ pc'[h] = "idle"
           /\ req[h].event = "charge.success"
           /\ loaded[h].status = "processing")
          => LET p == payments'[loaded[h].reference]
                 b == StoredBooking(bookings', loaded[h].booking)
             IN /\ p.status = "completed"
                /\ p.paidAt # 0
                /\ p.verified
                /\ p.verifiedAt # 0
                /\ p.transactionId = doc[h].transactionId
                /\ b # NoDoc
                /\ b.status = "confirmed"
                /\ b.paymentStatus = "paid"]_vars

\* The hash the verifier computes for a body.
ComputedHash(body) == Hmac(PAYSTACK_SECRET_KEY, JsonStringify(body))

\* The step answers a request 400 and changes no payment and no booking.
Rejected ==
    /\ payments' = payments
    /\ bookings' = bookings
    /\ pc' = pc
    /\ last'.resp = 400

\* C17: a webhook request whose signature header is missing, empty or not the
\* hash the verifier computes is answered 400 and changes no payment and no
\* booking: a step that is not such a rejection is not the step of a webhook
\* request with such a header.
C17_SignatureFailsClosed ==
    [][\A h \in Accepting :
          ~Rejected
          => \A e \in WebhookEvents : \A s \in Signatures(e) :
                (Falsy(s) \/ s # ComputedHash(RawBody(e)))
                => ~WebhookRequest(h, e, s)]_vars

\* C17 witness: a webhook request was rejected for its signature.
C17_Witness ==
    last = [kind |-> "webhook", event |-> "none", seen |-> "none", resp |-> 400]

\* C18: a webhook request whose signature header is the HMAC, under the
\* shared secret, of the bytes of the body passes the verification: it is not
\* answered 400 and its event is handled.
C18_AuthenticWebhookAccepted ==
    [][\A h \in Accepting :
       \A e \in WebhookEvents :
          WebhookRequest(h, e, ProviderSignature(RawBody(e)))
          => /\ last'.resp # 400
             /\ \/ pc'[h] = "w_save"
                \/ last' = [kind |-> "webhook", event |-> e.event,
                            seen |-> last'.seen, resp |-> 200]]_vars

\* C19: every webhook event that passed the signature check is answered 200,
\* whatever its type and whether or not its reference matches a payment, and
\* one answered without a save changes no record.
C19_WebhookAcknowledged ==
    [][\A h \in Handlers :
          /\ (pc[h] \in {"w_save", "w_booking", "w_booking_save"} /\ pc'[h] = "idle")
             => last'.resp = 200
          /\ (/\ Free(h) /\ served' = served + 1 /\ pc' = pc
              /\ last'.kind = "webhook" /\ last'.event # "none")
             => /\ last'.resp = 200
                /\ payments' = payments
                /\ bookings' = bookings]_vars

\* C20: processRefund, called on a payment that is completed with an amount
\* that is not more than the payment's, sets status refunded, refundAmount and
\* refundedAt, and its save() stores them.  Called on a payment in any other
\* status, or with a greater amount, it throws: nothing is assigned, no save
\* is called and the stored payments stay as they were.  Every refunded
\* payment has refundAmount <= amount.
C20_RefundOnlyFromCompleted ==
    [][/\ \A h \in Accepting : \A r \in SeedRefs, a \in RefundAmounts :
             RefundRequest(h, r, a)
             => /\ payments' = payments
                /\ IF payments[r].status = "completed" /\ a <= payments[r].amount
                   THEN /\ pc'[h] = "r_save"
                        /\ doc'[h] = [payments[r] EXCEPT !.status = "refunded",
                                                         !.refundAmount = a,
                                                         !.refundedAt = now]
                   ELSE /\ pc' = pc
                        /\ last'.event = "thrown"
       /\ \A h \in Handlers :
             (pc[h] = "r_save" /\ pc'[h] = "idle")
             => /\ payments'[loaded[h].reference].status = "refunded"
                /\ payments'[loaded[h].reference].refundAmount = req[h].amount
                /\ payments'[loaded[h].reference].refundedAt = doc[h].refundedAt
       /\ \A r \in DOMAIN payments' :
             payments'[r].status = "refunded"
             => payments'[r].refundAmount <= payments'[r].amount]_vars

\* C20 witness: a refund of a completed payment was applied and is stored.
C20_Witness ==
    /\ last = [kind |-> "refund", event |-> "none", seen |-> "completed", resp |-> 0]
    /\ \E r \in DOMAIN payments :
          payments[r].status = "refunded" /\ payments[r].refundAmount = 1

\* C21: a verify call for an online payment in processing with retryCount 0,
\* to which the provider reports a status other than success while nothing
\* else has written the payment, stores it as failed with the failure reason,
\* the provider's payload and retryCount 1.
C21_FailedVerifyMarksFailed ==
    [][\A h \in Handlers :
          (/\ VerifySaves(h, "failed")
           /\ loaded[h].status = "processing"
           /\ loaded[h].retryCount = 0
           /\ Stored(h) = loaded[h])
          => LET p == payments'[loaded[h].reference] IN
             /\ p.status = "failed"
             /\ p.failureReason = "Payment verification failed"
             /\ p.providerResponse =
                   [status |-> "failed", id |-> ProviderTxId(loaded[h].reference)]
             /\ p.retryCount = 1
             /\ last'.resp = 200]_vars

\* C21 witness: a verify call to which the provider reported a failure has
\* marked the processing payment PAY_1 failed.
C21_Witness ==
    /\ last = [kind |-> "verify", event |-> "failed", seen |-> "processing", resp |-> 200]
    /\ payments["PAY_1"].status = "failed"
    /\ payments["PAY_1"].retryCount = 1

\* C22: with no secret key in the environment, an Initialize request with an
\* online method that is valid ends with a configuration error: it does not
\* go on to the provider and leaves the payments as they were.
C22_MissingKeyIsConfigurationError ==
    [][\A h \in Handlers :
          (/\ EnvSecretKey = None
           /\ InitializeSaves(h)
           /\ doc[h].paymentMethod # "cash")
          => /\ pc'[h] = "idle"
             /\ last'.resp >= 400
             /\ last'.seen = "ConfigurationError"
             /\ payments' = payments]_vars

\* C23: the save of a payment that Initialize made without a reference stores
\* it under a generated reference that no other payment has, and no step
\* removes a payment or changes the reference of one.
C23_ReferenceGeneratedAndImmutable ==
    [][/\ \A h \in Handlers :
             InitializeSaves(h)
             => \E g \in DOMAIN payments' \ DOMAIN payments :
                   g # None /\ payments'[g].reference = g
       /\ \A r \in DOMAIN payments :
             r \in DOMAIN payments' /\ payments'[r].reference = r]_vars

\* C24: when the call to the provider of a verify request fails in transport,
\* the request is answered 500 and ends, and no payment and no booking is
\* changed.
C24_VerifyTransportFailure ==
    [][\A h \in Verifying :
          VerifyProvider(h, "error")
          => /\ payments' = payments
             /\ bookings' = bookings
             /\ pc'[h] = "idle"
             /\ last'.resp = 500]_vars

\* C24 witness: a verify call whose provider call failed in transport was
\* answered 500.
C24_Witness ==
    last = [kind |-> "verify", event |-> "error", seen |-> "processing", resp |-> 500]

\* C25: every mark-failed transition applied to a payment (a charge.failed
\* webhook handled, a verify call with a status other than success) adds one
\* to the stored retryCount, also when the handler works on a copy loaded
\* before another handler's write.
C25_RetryCountCountsFailures ==
    [][\A h \in Handlers :
          (\/ /\ pc[h] = "w_save" /\ pc'[h] # "w_save"
              /\ req[h].event = "charge.failed"
           \/ VerifySaves(h, "failed"))
          => payments'[loaded[h].reference].retryCount
                = payments[loaded[h].reference].retryCount + 1]_vars

\* C26: a payment is verified with paidAt set exactly when its status is
\* completed or refunded.
C26_VerifiedIffCompleted ==
    \A r \in DOMAIN payments :
        (payments[r].verified /\ payments[r].paidAt # 0)
        <=> payments[r].status \in {"completed", "refunded"}

\* C27: after the handling of a charge.success webhook was answered 500 with
\* the payment stored as completed and its booking not confirmed, a
\* redelivery of the webhook that is answered 200 leaves the booking
\* confirmed and paid.
C27_RedeliveryConfirmsBooking ==
    [][\A h \in Accepting :
       \A e \in {x \in WebhookEvents : /\ x.event = "charge.success"
                                       /\ x.data.reference \in DOMAIN payments} :
          LET b == payments[e.data.reference].booking IN
          (/\ last.kind = "webhook" /\ last.event = "charge.success"
           /\ last.seen = "processing" /\ last.resp = 500
           /\ \A k \in Handlers : pc[k] = "idle"
           /\ payments[e.data.reference].status = "completed"
           /\ FindBooking(b) # NoDoc
           /\ FindBooking(b).status # "confirmed"
           /\ WebhookRequest(h, e, ComputedHash(RawBody(e)))
           /\ last'.resp = 200)
          => LET after == StoredBooking(bookings', b) IN
             /\ after # NoDoc
             /\ after.status = "confirmed"
             /\ after.paymentStatus = "paid"]_vars

\* C30: an Initialize request for a stored booking that the requesting user
\* did not post is answered 404 and creates no payment; one for a stored
\* booking the user posted is not answered 404.
C30_InitializeOwnBookingOnly ==
    [][\A h \in Accepting :
       \A b \in {x \in DOMAIN bookings : bookings[x] # NoDoc}, m \in Methods :
          InitializeRequest(h, b, MaxAmount, m)
          => IF BookingCreator[b] = Requester
             THEN ~(pc' = pc /\ last'.resp = 404)
             ELSE /\ pc' = pc
                  /\ last'.resp = 404
                  /\ payments' = payments]_vars

\* C28: an account that admin login accepts (role admin or super_admin,
\* status active) is granted access to a route behind adminAuth when it
\* presents a token that login issued to it and that has not expired: the
\* request is passed on to the lookup of the user, and when the lookup finds
\* such an account the route's handler is run.
C28_LoginAccountsPassAdminAuth ==
    [][/\ \A h \in Accepting : \A t \in tokens :
             (/\ FindActiveAdmin(t.email) # NoDoc
              /\ FindActiveAdmin(t.email).id = t.id
              /\ now < t.exp
              /\ StatsRequest(h, t))
             => pc'[h] = "a_user"
       /\ \A h \in Handlers :
             (/\ pc[h] = "a_user" /\ pc'[h] # "a_user"
              /\ FindUserById(req[h].user) # NoDoc
              /\ FindActiveAdmin(FindUserById(req[h].user).email) # NoDoc)
             => pc'[h] = FirstQuery(req[h].kind)]_vars

\* C29: protect runs the route's handler only for a token whose user is
\* stored; a request with a validly signed, unexpired token of a user that has
\* been deleted is answered 401 and the handler is not run.
C29_ProtectNeedsExistingUser ==
    [][\A h \in Handlers :
          (pc[h] = "p_user" /\ pc'[h] = "idle")
          => /\ authLast'.ran => FindUserById(req[h].user) # NoDoc
             /\ FindUserById(req[h].user) = NoDoc
                => (authLast'.resp = 401 /\ ~authLast'.ran)]_vars

====
